---- MODULE Spec2Model ----
(***************************************************************************)
(* VIN decoding tool (VinApi_Query.py): validate_vin, hard_decode_vin,     *)
(* extract_standardized_engine and the resolution function                 *)
(* decode_vin_simplified, which validates a VIN, queries the remote decode *)
(* service with retries and falls back to the structural (hard) decode.    *)
(*                                                                         *)
(* Python str values are TLA+ strings; s[i] (0-based) is Char(s, i + 1).   *)
(* The remote service is the environment: each request is answered by a    *)
(* timeout, an HTTP error, another exception or a JSON document.           *)
(***************************************************************************)
EXTENDS Integers, Sequences, FiniteSets, TLC

(***************************************************************************)
(* Python str primitives used by the program                               *)
(***************************************************************************)
Char(s, i) == SubSeq(s, i, i)

LowerLetters == "abcdefghijklmnopqrstuvwxyz"

UpperLetters == "ABCDEFGHIJKLMNOPQRSTUVWXYZ"

DigitChars == "0123456789"

Whitespace == {" ", "\t", "\n"}

\* F(x), with x evaluated once before F is applied to it
Bind(x, F(_)) == CHOOSE y \in {F(v) : v \in {x}} : TRUE

\* 1-based index of the first occurrence of character c in s, 0 if none
IndexOf(c, s) ==
    IF \E i \in 1..Len(s) : Char(s, i) = c
    THEN CHOOSE i \in 1..Len(s) :
            Char(s, i) = c /\ \A j \in 1..(i - 1) : Char(s, j) # c
    ELSE 0

\* The upper-case form of each lower-case letter, and the reverse
UpperOf ==
    [c \in {Char(LowerLetters, i) : i \in 1..Len(LowerLetters)} |->
        Char(UpperLetters, IndexOf(c, LowerLetters))]

LowerOf ==
    [c \in {Char(UpperLetters, i) : i \in 1..Len(UpperLetters)} |->
        Char(LowerLetters, IndexOf(c, UpperLetters))]

\* c.upper() for one character
UpperChar(c) == IF c \in DOMAIN UpperOf THEN UpperOf[c] ELSE c

\* String literals here are ASCII, so three characters of the programs'
\* texts are written with stand-ins: "$" is U+0130 (capital I with dot
\* above), a letter whose lower case is the two characters "i" and U+0307;
\* "~" is U+0307 (combining dot above), neither a word character nor
\* whitespace; "_" is also any CJK character of the comparison script's
\* markers, a word character without case.
DottedI == "$"

CombiningDot == "~"

\* c.lower() for one character
LowerChar(c) ==
    IF c \in DOMAIN LowerOf THEN LowerOf[c]
    ELSE IF c = DottedI THEN "i" \o CombiningDot
    ELSE c

IsLetter(c) == c \in DOMAIN UpperOf \/ c \in DOMAIN LowerOf

RECURSIVE Upper(_)
\* s.upper()
Upper(s) == IF Len(s) = 0 THEN "" ELSE UpperChar(Head(s)) \o Upper(Tail(s))

RECURSIVE Lower(_)
\* s.lower()
Lower(s) == IF Len(s) = 0 THEN "" ELSE LowerChar(Head(s)) \o Lower(Tail(s))

RECURSIVE LStrip(_)
LStrip(s) ==
    IF Len(s) > 0 /\ Head(s) \in Whitespace THEN LStrip(Tail(s)) ELSE s

RECURSIVE RStrip(_)
RStrip(s) ==
    IF Len(s) > 0 /\ Char(s, Len(s)) \in Whitespace
    THEN RStrip(SubSeq(s, 1, Len(s) - 1))
    ELSE s

\* s.strip()
Strip(s) == RStrip(LStrip(s))

\* sub in s
Contains(sub, s) ==
    \E i \in 1..(Len(s) - Len(sub) + 1) : SubSeq(s, i, i + Len(sub) - 1) = sub

RECURSIVE TitleFrom(_, _)
\* s.title(): a letter that follows a non-letter is upper-cased, a letter
\* that follows a letter is lower-cased; inWord tells whether the previous
\* character was a letter
TitleFrom(s, inWord) ==
    IF Len(s) = 0 THEN ""
    ELSE LET c == Head(s)
         IN  (IF ~IsLetter(c) THEN c
              ELSE IF inWord THEN LowerChar(c) ELSE UpperChar(c))
             \o TitleFrom(Tail(s), IsLetter(c))

Title(s) == TitleFrom(s, FALSE)

\* s[:n]
Prefix(s, n) == SubSeq(s, 1, IF Len(s) < n THEN Len(s) ELSE n)

RECURSIVE IntToStr(_)
\* str(n) for an int n >= 0
IntToStr(n) ==
    IF n < 10 THEN Char(DigitChars, n + 1)
    ELSE IntToStr(n \div 10) \o Char(DigitChars, (n % 10) + 1)

\* d.get(k, default) for a dict d
DictGet(d, k, default) == IF k \in DOMAIN d THEN d[k] ELSE default

(***************************************************************************)
(* hard_decode_vin: structural decode of manufacturer and year             *)
(***************************************************************************)
wmi_mapping ==
    ("1HG" :> "Honda") @@ ("1F" :> "Ford") @@ ("1G" :> "Chevrolet") @@
    ("5YJ" :> "Tesla") @@ ("JM" :> "Toyota") @@ ("WAU" :> "Audi") @@
    ("WBA" :> "BMW") @@ ("WVW" :> "Volkswagen") @@ ("SAL" :> "Land Rover") @@
    ("1GY" :> "Cadillac") @@ ("KL4" :> "Buick") @@ ("5T" :> "Toyota") @@
    ("3TY" :> "Toyota") @@ ("JT" :> "Toyota") @@ ("4T" :> "Toyota") @@
    ("2HG" :> "Honda") @@ ("JHM" :> "Honda") @@ ("5F" :> "Honda") @@
    ("3HG" :> "Honda") @@ ("1FT" :> "Ford") @@ ("1FM" :> "Ford") @@
    ("1FA" :> "Ford") @@ ("WA1" :> "Audi") @@ ("WBY" :> "BMW") @@
    ("5UX" :> "BMW") @@ ("7SA" :> "Tesla") @@ ("JM3" :> "Mazda") @@
    ("1V2" :> "Volkswagen") @@ ("3VW" :> "Volkswagen")

year_mapping ==
    ("A" :> 2010) @@ ("B" :> 2011) @@ ("C" :> 2012) @@ ("D" :> 2013) @@
    ("E" :> 2014) @@ ("F" :> 2015) @@ ("G" :> 2016) @@ ("H" :> 2017) @@
    ("J" :> 2018) @@ ("K" :> 2019) @@ ("L" :> 2020) @@ ("M" :> 2021) @@
    ("N" :> 2022) @@ ("P" :> 2023) @@ ("R" :> 2024) @@ ("S" :> 2025) @@
    ("T" :> 2026) @@ ("V" :> 2027) @@ ("W" :> 2028) @@ ("X" :> 2029) @@
    ("Y" :> 2030) @@ ("1" :> 2001) @@ ("2" :> 2002) @@ ("3" :> 2003) @@
    ("4" :> 2004) @@ ("5" :> 2005) @@ ("6" :> 2006) @@ ("7" :> 2007) @@
    ("8" :> 2008) @@ ("9" :> 2009)

WmiUnrecognized == "Hard decode unrecognized (WMI not in mapping)"

YearUnrecognized == "Hard decode unrecognized (Year code not in mapping)"

\* Length of the WMI slice vin[:3]
WmiLen == 3

\* 0-based offset of the year code, vin[9]
YearOffset == 9

\* wmi = vin[:3].upper()
wmi_of(vin) == Upper(Prefix(vin, WmiLen))

\* year_code = vin[9].upper()
year_code_of(vin) == UpperChar(Char(vin, YearOffset + 1))

\* manufacturer = wmi_mapping.get(wmi, <unrecognized>)
decode_manufacturer(wmi) == DictGet(wmi_mapping, wmi, WmiUnrecognized)

\* year = year_mapping.get(year_code, <unrecognized>), an int turned to str
decode_year(year_code) ==
    IF year_code \in DOMAIN year_mapping
    THEN IntToStr(year_mapping[year_code])
    ELSE YearUnrecognized

decode_status_any(manufacturer, year) ==
    IF manufacturer # WmiUnrecognized \/ year # YearUnrecognized
    THEN "success"
    ELSE "partial_success"

decode_status(manufacturer, year) ==
    IF manufacturer # WmiUnrecognized /\ year # YearUnrecognized
    THEN "success"
    ELSE "partial_success"

\* vin[9] raises IndexError on a string shorter than 10 characters
hard_decode_raises(vin) == Len(vin) < YearOffset + 1

hard_decode_vin(vin) ==
    LET manufacturer == decode_manufacturer(wmi_of(vin))
        year == decode_year(year_code_of(vin))
    IN  [manufacturer |-> manufacturer,
         year |-> year,
         decode_status |-> decode_status(manufacturer, year)]

(***************************************************************************)
(* validate_vin                                                            *)
(***************************************************************************)
VinLen == 17

invalid_chars == {"I", "O", "Q"}

LengthMsg == "VIN must be 17 characters long"

InvalidCharMsg(char) ==
    "VIN contains invalid character '" \o char \o "' (I/O/Q are not allowed)"

ValidMsg == "VIN format is valid"

RECURSIVE FirstInvalidCaseSensitive(_, _)
FirstInvalidCaseSensitive(vin, i) ==
    IF i > Len(vin) THEN 0
    ELSE IF Char(vin, i) \in invalid_chars THEN i
    ELSE FirstInvalidCaseSensitive(vin, i + 1)

RECURSIVE FirstInvalidFrom(_, _)
\* the for loop of validate_vin from 1-based position i on: the position of
\* the first character whose upper case is in invalid_chars, 0 if none
FirstInvalidFrom(vin, i) ==
    IF i > Len(vin) THEN 0
    ELSE IF UpperChar(Char(vin, i)) \in invalid_chars THEN i
    ELSE FirstInvalidFrom(vin, i + 1)

validate_vin(vin) ==
    IF Len(vin) # VinLen THEN <<FALSE, LengthMsg>>
    ELSE LET i == FirstInvalidFrom(vin, 1)
         IN  IF i > 0 THEN <<FALSE, InvalidCharMsg(Char(vin, i))>>
             ELSE <<TRUE, ValidMsg>>

(***************************************************************************)
(* Python float: float(str), division by 1000, round(x, 1) and its repr.   *)
(* A float is held exactly as num / 10^scale.  float_parses covers plain   *)
(* decimal literals (digits with at most one point, surrounding            *)
(* whitespace); the response values drawn below stay within that form.     *)
(***************************************************************************)
\* The value of each decimal digit
DigitValue ==
    [c \in {Char(DigitChars, i) : i \in 1..Len(DigitChars)} |->
        IndexOf(c, DigitChars) - 1]

IsDigit(c) == c \in DOMAIN DigitValue

DigitVal(c) == DigitValue[c]

RECURSIVE DigitsToInt(_, _)
DigitsToInt(s, acc) ==
    IF Len(s) = 0 THEN acc
    ELSE IF IsDigit(Head(s))
         THEN DigitsToInt(Tail(s), acc * 10 + DigitVal(Head(s)))
         ELSE DigitsToInt(Tail(s), acc)

RECURSIVE Pow10(_)
Pow10(n) == IF n = 0 THEN 1 ELSE 10 * Pow10(n - 1)

\* float(s) does not raise ValueError
float_parses(s) ==
    LET t == Strip(s)
    IN  /\ \A i \in 1..Len(t) : IsDigit(Char(t, i)) \/ Char(t, i) = "."
        /\ Cardinality({i \in 1..Len(t) : Char(t, i) = "."}) <= 1
        /\ \E i \in 1..Len(t) : IsDigit(Char(t, i))

\* float(s), for a string that parses
float_of(s) ==
    LET t == Strip(s)
        dot == IndexOf(".", t)
    IN  [num |-> DigitsToInt(t, 0),
         scale |-> IF dot = 0 THEN 0 ELSE Len(t) - dot]

\* x / 1000
div1000(x) == [num |-> x.num, scale |-> x.scale + 3]

\* The tenths q (below 10.0) for which the double nearest to q/10 + 0.05
\* lies above it, so that round(q/10 + 0.05, 1) goes up; x.25 and x.75 are
\* exact doubles and round half to even.
TiesRoundingUp ==
    {0, 4, 5, 6, 7, 10, 13, 15, 17, 18, 23, 24, 27, 28, 29, 33, 34, 37, 38,
     39, 41, 44, 46, 47, 49, 51, 54, 56, 57, 59, 61, 64, 66, 67, 69, 71, 74,
     76, 77, 79, 80, 81, 85, 86, 87, 90, 91, 95, 96, 97}

\* round(x, 1), in tenths
round1(x) ==
    LET p == Pow10(x.scale)
        q == (x.num * 10) \div p
        r == (x.num * 10) % p
    IN  IF 2 * r < p THEN q
        ELSE IF 2 * r > p THEN q + 1
        ELSE IF q \in TiesRoundingUp THEN q + 1 ELSE q

\* repr of a float with one decimal, given in tenths: 20 -> "2.0"
float_repr(tenths) == IntToStr(tenths \div 10) \o "." \o IntToStr(tenths % 10)

(***************************************************************************)
(* extract_standardized_engine                                             *)
(* api_raw_engine is a dict from variable name to str.                     *)
(***************************************************************************)
NA == "N/A"

standardize_displacement(api_raw_engine) ==
    IF "Displacement (L)" \in DOMAIN api_raw_engine
    THEN LET displacement_l == api_raw_engine["Displacement (L)"]
         IN  IF float_parses(displacement_l)
             THEN float_repr(round1(float_of(displacement_l))) \o "L"
             ELSE displacement_l
    ELSE IF "Displacement (CC)" \in DOMAIN api_raw_engine
    THEN LET displacement_cc == api_raw_engine["Displacement (CC)"]
         IN  IF float_parses(displacement_cc)
             THEN float_repr(round1(div1000(float_of(displacement_cc)))) \o "L"
             ELSE displacement_cc \o "CC"
    ELSE NA

GasolineKeywords == {"gas", "petrol", "regular unleaded", "premium unleaded"}

standardize_fuel(api_raw_engine) ==
    LET raw_fuel == DictGet(api_raw_engine, "Fuel Type - Primary", NA)
    IN  IF raw_fuel # "" /\ Strip(raw_fuel) # ""
        THEN LET fuel_lower == Lower(Strip(raw_fuel))
             IN  IF \E kw \in GasolineKeywords : Contains(kw, fuel_lower)
                 THEN "Gasoline"
                 ELSE IF Contains("diesel", fuel_lower) THEN "Diesel"
                 ELSE IF Contains("electric", fuel_lower) THEN "Electric"
                 ELSE IF Contains("hybrid", fuel_lower) THEN "Hybrid"
                 ELSE Strip(raw_fuel)
        ELSE NA

extract_standardized_engine(api_raw_engine) ==
    "Displacement: " \o standardize_displacement(api_raw_engine)
    \o "; Fuel Type: " \o standardize_fuel(api_raw_engine)

(***************************************************************************)
(* The remote service's JSON.  A JSON value is null, a string or a list;   *)
(* an object is a function from its keys.  An item of Results normally     *)
(* has the keys Variable (a str) and Value (null or a string).             *)
(***************************************************************************)
JNull == [t |-> "null"]

JStr(s) == [t |-> "str", s |-> s]

JList(items) == [t |-> "list", items |-> items]

Item(var, val) == [Variable |-> var, Value |-> val]

\* Python truth value of api_data.get("Results")
results_present(api_data) ==
    /\ "Results" \in DOMAIN api_data
    /\ api_data["Results"].t = "list"
    /\ Len(api_data["Results"].items) > 0

\* "x if x.strip() else N/A", the value kept for a named field
strip_or_na(var_value) == IF Strip(var_value) # "" THEN Strip(var_value) ELSE NA

\* One pass of the loop over Results (lines 170-184) for an item that has
\* both keys; acc is [info, engine]
map_item(acc, item) ==
    LET var_name == item["Variable"]
        var_value == IF item["Value"].t # "null" THEN item["Value"].s ELSE NA
    IN  IF var_name = "Make"
        THEN [acc EXCEPT !.info.Manufacturer = strip_or_na(var_value)]
        ELSE IF var_name = "Model Year"
        THEN [acc EXCEPT !.info.Year = strip_or_na(var_value)]
        ELSE IF var_name = "Model"
        THEN [acc EXCEPT !.info.Model = strip_or_na(var_value)]
        ELSE IF var_name \in {"Transmission Style", "Transmission"}
        THEN [acc EXCEPT !.info.Transmission = strip_or_na(var_value)]
        ELSE IF var_name \in {"Displacement (L)", "Displacement (CC)",
                              "Fuel Type - Primary"}
        THEN [acc EXCEPT !.engine = (var_name :> var_value) @@ acc.engine]
        ELSE acc

RECURSIVE map_items(_, _)
\* The loop over Results; a missing key raises KeyError, whose text is the
\* quoted key
map_items(acc, items) ==
    IF Len(items) = 0 THEN acc
    ELSE IF acc.raised THEN acc
    ELSE IF "Variable" \notin DOMAIN Head(items)
    THEN [acc EXCEPT !.raised = TRUE, !.exc = "'Variable'"]
    ELSE IF "Value" \notin DOMAIN Head(items)
    THEN [acc EXCEPT !.raised = TRUE, !.exc = "'Value'"]
    ELSE map_items(map_item(acc, Head(items)), Tail(items))

API == "API"

ManufacturerFallback == "API + Hard Decode (Manufacturer Fallback)"

YearFallback == "API + Hard Decode (Year Fallback)"

HardDecodeOnly == "Hard Decode (API Unavailable)"

NoData == "API parsing failed, no data"

\* parsed_info as initialised at lines 158-166
parsed_info_init(vin) ==
    [VIN |-> Upper(vin), Manufacturer |-> NA, Year |-> NA, Model |-> NA,
     Engine |-> NA, Transmission |-> NA, Data_Source |-> API]

\* lines 190-192: title-case the manufacturer
standardize_manufacturer(m) == IF m # NA THEN Title(m) ELSE m

\* lines 193-199: collapse the transmission to a category
standardize_transmission(t) ==
    IF Contains("CVT", t) THEN "CVT"
    ELSE IF Contains("Automatic", t) THEN "Automatic"
    ELSE IF Contains("Manual", t) \/ Contains("Standard", t) THEN "Manual"
    ELSE t

\* lines 186-199: parsed_info after the standardization of the mapped fields
standardize(info, api_raw_engine) ==
    [info EXCEPT !.Engine = extract_standardized_engine(api_raw_engine),
                 !.Manufacturer = standardize_manufacturer(@),
                 !.Transmission = standardize_transmission(@)]

\* lines 203-206
fill_manufacturer(info, hd) ==
    IF info.Manufacturer = NA
    THEN [info EXCEPT !.Manufacturer = hd.manufacturer,
                      !.Data_Source = ManufacturerFallback]
    ELSE info

\* lines 207-209
fill_year(info, hd) ==
    IF info.Year = NA
    THEN [info EXCEPT !.Year = hd.year, !.Data_Source = YearFallback]
    ELSE info

\* lines 201-209: Step 4, hard decode fills a missing manufacturer or year
fallback_merge_year_first(info, hd) ==
    fill_manufacturer(fill_year(info, hd), hd)

fallback_merge(info, hd) == fill_year(fill_manufacturer(info, hd), hd)

\* result as initialised at lines 119-132
result_init(vin) ==
    [success |-> FALSE,
     vehicle_info |->
        [VIN |-> Upper(vin), Manufacturer |-> NA, Year |-> NA,
         Model |-> NoData, Engine |-> NoData, Transmission |-> NoData,
         Data_Source |-> HardDecodeOnly],
     error |-> ""]

result_invalid_generic(vin_msg) ==
    [success |-> FALSE, vehicle_info |-> <<>>, error |-> "Invalid VIN"]

\* lines 116-117
result_invalid(vin_msg) ==
    [success |-> FALSE, vehicle_info |-> <<>>, error |-> vin_msg]

hard_decode_success_any_field(hd) ==
    hd.manufacturer # WmiUnrecognized \/ hd.year # YearUnrecognized

\* line 239: success only if the hard decode resolved both fields
hard_decode_success(hd) == hd.decode_status = "success"

step5_without_year(res, hd) ==
    [res EXCEPT !.vehicle_info.Manufacturer = hd.manufacturer,
                !.vehicle_info.Data_Source = HardDecodeOnly,
                !.success = hard_decode_success(hd)]

\* lines 232-239: Step 5, the record built from the hard decode alone
step5(res, hd) ==
    [res EXCEPT !.vehicle_info.Manufacturer = hd.manufacturer,
                !.vehicle_info.Year = hd.year,
                !.vehicle_info.Data_Source = HardDecodeOnly,
                !.success = hard_decode_success(hd)]

max_retries == 2

\* str(e)[:50]
ErrCut == 50

EmptyErr == "API returned empty data; falling back to hard decode"

TimeoutErr ==
    "API request timed out (2 retries exhausted); falling back to hard decode"

HttpErr(e) ==
    "API HTTP Error: " \o Prefix(e, ErrCut) \o "; falling back to hard decode"

ParseErr(e) ==
    "API parsing error: " \o Prefix(e, ErrCut) \o "; falling back to hard decode"

(***************************************************************************)
(* Inputs: the strings handed to decode_vin_simplified and the answers of  *)
(* the remote service                                                      *)
(***************************************************************************)
\* Strings of VinLen - LenSlack .. VinLen + LenSlack characters are tried
LenSlack == 1

\* At most MaxResults items in a Results list
MaxResults == 2

Wmis == {"1HG", "1hg", "1FX", "ZZZ"}

YearCodes == {"K", "k", "U"}

MkVin(w, y) == w \o "CM8263" \o y \o "A004352"

BaseVins == {MkVin(w, y) : w \in Wmis, y \in YearCodes}

\* s with the character at 1-based position i replaced by c
ReplaceAt(s, i, c) == SubSeq(s, 1, i - 1) \o c \o SubSeq(s, i + 1, Len(s))

OddChars == {"I", "o", "Q", "q", "-"}

OddPositions == {1, YearOffset + 1, VinLen}

\* A well-formed VIN with one or two characters replaced
OddVins ==
    LET v == MkVin("1HG", "K")
        one == {ReplaceAt(v, i, c) : i \in OddPositions, c \in OddChars}
    IN  one \cup {ReplaceAt(w, i, c) : w \in one, i \in OddPositions, c \in OddChars}

RECURSIVE Pad(_, _)
Pad(s, n) == IF n = 0 THEN s ELSE Pad(s \o "7", n - 1)

\* Strings that are too short or too long
WrongLengthVins ==
    LET from == {MkVin("1HG", "K"), MkVin("ZZZ", "U"),
                 ReplaceAt(MkVin("1HG", "K"), 1, "I"),
                 ReplaceAt(MkVin("1HG", "K"), 5, "q")}
    IN  {""}
        \cup {Prefix(v, VinLen - d) : v \in from, d \in 1..LenSlack}
        \cup {Pad(v, d) : v \in from, d \in 1..LenSlack}

VinInputs == BaseVins \cup OddVins \cup WrongLengthVins

\* Texts of the exceptions raised by the request (str(e))
ExcTexts ==
    {"503 Server Error",
     "HTTPSConnectionPool(host='vpic.nhtsa.dot.gov', port=443): Max retries exceeded"}

Items ==
    {Item("Make", JNull), Item("Make", JStr(" ")), Item("Make", JStr("HONDA")),
     Item("Make", JStr("n/a")),
     Item("Model Year", JNull), Item("Model Year", JStr("2019")),
     Item("Model", JStr("Civic")),
     Item("Transmission Style", JStr("Automatic")),
     Item("Transmission Style", JStr("Direct Drive")),
     Item("Displacement (L)", JNull), Item("Displacement (L)", JStr("2.0")),
     Item("Displacement (CC)", JStr("1998")),
     Item("Fuel Type - Primary", JStr("Gasoline")),
     Item("Body Class", JStr("Sedan")),
     [Value |-> JNull]}

\* The JSON documents the service answers with
ApiDocs ==
    {<<>>, [Results |-> JNull], [Results |-> JList(<<>>)]}
    \cup {[Results |-> JList(s)] :
            s \in UNION {[1..n -> Items] : n \in 1..MaxResults}}

(***************************************************************************)
(* One run of either program: decode_vin_simplified of VinApi_Query.py or  *)
(* decode_vin of Vin_Decoder_QueryApi_Test.py, each as a state machine     *)
(*   prog         "resolve" for decode_vin_simplified, "lookup" for        *)
(*                decode_vin, "none" before the call                       *)
(*   pc           "idle" before the call, "request" while a request of the *)
(*                retry loop is pending, "done" once it returned, "raised" *)
(*                if an exception escaped                                  *)
(*   vin_check    what validate_vin returned                               *)
(*   attempt      the loop variable                                        *)
(*   requests     requests.get calls made so far                           *)
(*   hard_calls   hard_decode_vin calls made so far                        *)
(*   last_outcome how the latest request ended                             *)
(*   parsed_info  parsed_info as standardized, before Step 4               *)
(*   hard_decoded the latest result of hard_decode_vin                     *)
(*   api_raw      what decode_vin returned                                 *)
(*   response_json  the document of the latest answered request            *)
(* The batch run of the comparison script (main) adds                      *)
(*   idx          how many entries of vehicle_data the loop has taken      *)
(*   local_info   the reference record of the current entry                *)
(*   api_mapped   what map_api_fields returned for it                      *)
(*   comp_res     the verdict of the current entry                         *)
(*   comparison_results  for the VIN of every entry handled so far, the    *)
(*                match and match_source of its verdict                    *)
(* and the application of the text functions to one text adds              *)
(*   text         the argument, a Python value                             *)
(*   normalized   normalize_text(text)                                     *)
(*   fuel         the fuel category each classifier gives the text         *)
(***************************************************************************)
VARIABLES prog, pc, vin, vin_check, attempt, requests, hard_calls,
          last_outcome, result, api_success, parsed_info, hard_decoded,
          api_raw, response_json,
          idx, local_info, api_mapped, comp_res, comparison_results,
          text, normalized, fuel

main_vars == <<idx, local_info, api_mapped, comp_res, comparison_results>>

text_vars == <<text, normalized, fuel>>

vars == <<prog, pc, vin, vin_check, attempt, requests, hard_calls,
          last_outcome, result, api_success, parsed_info, hard_decoded,
          api_raw, response_json, main_vars, text_vars>>

\* Nothing has been called yet
Idle ==
    /\ response_json = <<>>
    /\ idx = 0
    /\ local_info = <<>>
    /\ api_mapped = <<>>
    /\ comp_res = <<>>
    /\ comparison_results = <<>>
    /\ text = <<>>
    /\ normalized = <<>>
    /\ fuel = <<>>

Init ==
    /\ Idle
    /\ prog = "none"
    /\ pc = "idle"
    /\ api_raw = <<>>
    /\ vin = ""
    /\ vin_check = <<>>
    /\ attempt = 0
    /\ requests = 0
    /\ hard_calls = 0
    /\ last_outcome = "none"
    /\ result = <<>>
    /\ api_success = FALSE
    /\ parsed_info = <<>>
    /\ hard_decoded = <<>>

\* Steps 1 and 2: validation, then the result structure
Call ==
    /\ pc = "idle"
    /\ prog' = "resolve"
    /\ \E v \in VinInputs :
        /\ vin' = v
        /\ vin_check' = validate_vin(v)
        /\ IF ~validate_vin(v)[1]
           THEN /\ result' = result_invalid(validate_vin(v)[2])
                /\ pc' = "done"
           ELSE /\ result' = result_init(v)
                /\ pc' = "request"
    /\ UNCHANGED <<attempt, requests, hard_calls, last_outcome, api_success,
                   parsed_info, hard_decoded, api_raw, response_json,
                   main_vars, text_vars>>

retried_any(outcome, att) == att < max_retries

retried_once_more(outcome, att) ==
    outcome \in {"timeout", "empty"} /\ att <= max_retries

\* Whether the loop goes on to another attempt after this outcome: the
\* timeout handler and the empty-Results branch sleep and continue while
\* attempt < max_retries; the other handlers break
retried(outcome, att) == outcome \in {"timeout", "empty"} /\ att < max_retries

\* The loop continues with the next attempt
Retry(outcome) ==
    /\ requests' = requests + 1
    /\ last_outcome' = outcome
    /\ attempt' = attempt + 1
    /\ UNCHANGED <<prog, pc, vin, vin_check, hard_calls, result, api_success,
                   parsed_info, hard_decoded, api_raw, response_json,
                   local_info, api_mapped, comp_res, comparison_results,
                   idx, text_vars>>

\* The loop is left without api_success; Step 5 follows
Fail(err, outcome) ==
    /\ requests' = requests + 1
    /\ last_outcome' = outcome
    /\ hard_calls' = hard_calls + 1
    /\ IF hard_decode_raises(vin)
       THEN /\ pc' = "raised"
            /\ result' = [result EXCEPT !.error = err]
            /\ UNCHANGED hard_decoded
       ELSE /\ pc' = "done"
            /\ hard_decoded' = hard_decode_vin(vin)
            /\ result' = step5([result EXCEPT !.error = err],
                               hard_decode_vin(vin))
    /\ UNCHANGED <<prog, vin, vin_check, attempt, api_success, parsed_info,
                   api_raw, response_json, main_vars, text_vars>>

\* The response was mapped; Step 4 and the successful return
Succeed(acc, answer) ==
    LET info == standardize(acc.info, acc.engine)
        hd == hard_decode_vin(vin)
    IN  /\ requests' = requests + 1
        /\ last_outcome' = "ok"
        /\ hard_calls' = hard_calls + 1
        /\ parsed_info' = info
        /\ hard_decoded' = hd
        /\ result' = [success |-> TRUE,
                      vehicle_info |-> fallback_merge(info, hd),
                      error |-> ""]
        /\ api_success' = TRUE
        /\ pc' = "done"
        /\ response_json' = answer
        /\ UNCHANGED <<prog, vin, vin_check, attempt, api_raw, main_vars,
                       text_vars>>

\* requests.get raises requests.exceptions.Timeout
RequestTimeout ==
    /\ prog = "resolve"
    /\ pc = "request"
    /\ IF retried("timeout", attempt)
       THEN Retry("timeout")
       ELSE Fail(TimeoutErr, "timeout")

\* raise_for_status raises requests.exceptions.HTTPError
RequestHTTPError ==
    /\ prog = "resolve"
    /\ pc = "request"
    /\ \E e \in ExcTexts :
        IF retried("http_error", attempt)
        THEN Retry("http_error")
        ELSE Fail(HttpErr(e), "http_error")

\* requests.get or response.json raises another exception
RequestException ==
    /\ prog = "resolve"
    /\ pc = "request"
    /\ \E e \in ExcTexts :
        IF retried("exception", attempt)
        THEN Retry("exception")
        ELSE Fail(ParseErr(e), "exception")

\* The service answers with a JSON document
RequestJson ==
    /\ prog = "resolve"
    /\ pc = "request"
    /\ \E api_data \in ApiDocs :
        IF ~results_present(api_data)
        THEN IF retried("empty", attempt)
             THEN Retry("empty")
             ELSE Fail(EmptyErr, "empty")
        ELSE LET acc == map_items([info |-> parsed_info_init(vin),
                                   engine |-> <<>>,
                                   raised |-> FALSE, exc |-> ""],
                                  api_data["Results"].items)
             IN  IF acc.raised \/ hard_decode_raises(vin)
                 THEN IF retried("malformed", attempt)
                      THEN Retry("malformed")
                      ELSE Fail(ParseErr(IF acc.raised THEN acc.exc
                                         ELSE "string index out of range"),
                                "malformed")
                 ELSE Succeed(acc, api_data)

(***************************************************************************)
(* decode_vin of Vin_Decoder_QueryApi_Test.py: the lookup of the           *)
(* comparison script.  It returns None or the dict api_data; a Python      *)
(* value is None, a str or a float.                                        *)
(***************************************************************************)
PyNone == [t |-> "None"]

PyStr(s) == [t |-> "str", s |-> s]

PyFloat(x) == [t |-> "float", x |-> x]

PyDict(d) == [t |-> "dict", d |-> d]

\* item['Value'] as a Python value
py_value(j) == IF j.t = "null" THEN PyNone ELSE PyStr(j.s)

\* lines 80-84: float(val) if val is not None and str(val).strip() else
\* None, and val itself when float raises
lookup_displacement(val) ==
    IF val.t = "None" THEN PyNone
    ELSE IF Strip(val.s) = "" THEN PyNone
    ELSE IF float_parses(val.s) THEN PyFloat(float_of(val.s))
    ELSE val

\* lines 78-86, for an item that has both keys
lookup_map_item(api_data, item) ==
    LET var == item["Variable"]
        val == py_value(item["Value"])
    IN  IF var \in {"Displacement (L)", "Displacement (CC)"}
        THEN (var :> lookup_displacement(val)) @@ api_data
        ELSE (var :> val) @@ api_data

RECURSIVE lookup_map_items(_, _)
\* lines 77-86; acc is [api_data, raised]
lookup_map_items(acc, items) ==
    IF Len(items) = 0 THEN acc
    ELSE IF \/ "Variable" \notin DOMAIN Head(items)
            \/ "Value" \notin DOMAIN Head(items)
    THEN [acc EXCEPT !.raised = TRUE]
    ELSE lookup_map_items(
            [acc EXCEPT !.api_data = lookup_map_item(@, Head(items))],
            Tail(items))

lookup_max_retries == 2

\* Whether decode_vin goes on to another attempt: its single handler
\* catches every exception and retries while attempt < max_retries; the
\* empty-Results branch returns None
lookup_retried(outcome, att) == outcome # "empty" /\ att < lookup_max_retries

\* The VINs of the reference dataset looked up
LookupVins == {MkVin("1HG", "K"), MkVin("ZZZ", "U"), ""}

LookupCall ==
    /\ pc = "idle"
    /\ prog' = "lookup"
    /\ pc' = "request"
    /\ vin' \in LookupVins
    /\ UNCHANGED <<vin_check, attempt, requests, hard_calls, last_outcome,
                   result, api_success, parsed_info, hard_decoded, api_raw,
                   response_json, main_vars, text_vars>>

\* decode_vin returns value
LookupReturn(value, outcome) ==
    /\ requests' = requests + 1
    /\ last_outcome' = outcome
    /\ api_raw' = value
    /\ pc' = "done"
    /\ UNCHANGED <<prog, vin, vin_check, attempt, hard_calls, result,
                   api_success, parsed_info, hard_decoded, response_json,
                   main_vars, text_vars>>

\* The except branch, or the return of None for an empty Results
LookupFailed(outcome) ==
    IF lookup_retried(outcome, attempt)
    THEN Retry(outcome)
    ELSE LookupReturn(PyNone, outcome)

\* requests.get, raise_for_status or response.json raises
LookupRaises ==
    /\ prog = "lookup"
    /\ pc = "request"
    /\ \E outcome \in {"timeout", "http_error", "exception"} :
        LookupFailed(outcome)

\* The service answers with a JSON document
LookupJson ==
    /\ prog = "lookup"
    /\ pc = "request"
    /\ \E data \in ApiDocs :
        IF ~results_present(data)
        THEN LookupFailed("empty")
        ELSE LET acc == lookup_map_items([api_data |-> <<>>, raised |-> FALSE],
                                         data["Results"].items)
             IN  IF acc.raised
                 THEN LookupFailed("malformed")
                 ELSE LookupReturn(PyDict(acc.api_data), "ok")

Next ==
    \/ Call
    \/ RequestTimeout
    \/ RequestHTTPError
    \/ RequestException
    \/ RequestJson
    \/ LookupCall
    \/ LookupRaises
    \/ LookupJson

Spec == Init /\ [][Next]_vars

(***************************************************************************)
(* Text functions of the comparison script: normalize_text, the fuel       *)
(* classification of map_api_fields and extract_engine_features            *)
(***************************************************************************)
PyInt(n) == [t |-> "int", n |-> n]

\* str(v) for None, a str or an int
py_str(v) ==
    IF v.t = "None" THEN "None"
    ELSE IF v.t = "int" THEN IntToStr(v.n)
    ELSE v.s

\* \w of the re module
IsWord(c) == IsLetter(c) \/ IsDigit(c) \/ c = "_" \/ c = DottedI

RECURSIVE StripUnlisted(_)
\* re.sub(r'[^\w\s.\-\/;]', '', s)
StripUnlisted(s) ==
    IF Len(s) = 0 THEN ""
    ELSE (IF IsWord(Head(s)) \/ Head(s) \in Whitespace \cup {".", "-", "/", ";"}
          THEN Head(s) ELSE "")
         \o StripUnlisted(Tail(s))

RECURSIVE CollapseSpace(_)
\* re.sub(r'\s+', ' ', s)
CollapseSpace(s) ==
    IF Len(s) = 0 THEN ""
    ELSE IF Head(s) \in Whitespace
    THEN " " \o CollapseSpace(LStrip(s))
    ELSE Head(s) \o CollapseSpace(Tail(s))

\* normalize_text of a Python value; the result is a str
normalize_text(v) ==
    IF v.t = "None" THEN ""
    ELSE Bind(StripUnlisted(py_str(v)),
              LAMBDA kept : Bind(CollapseSpace(kept),
                                 LAMBDA spaced : Bind(Strip(spaced), Lower)))

\* lines 114-127 of map_api_fields: standardized_fuel
lookup_standardize_fuel(raw_fuel_type) ==
    IF raw_fuel_type.t = "str" /\ Strip(raw_fuel_type.s) # ""
    THEN LET fuel_lower == Lower(Strip(raw_fuel_type.s))
         IN  IF \E kw \in {"gas", "petrol"} : Contains(kw, fuel_lower)
             THEN "Gasoline"
             ELSE IF Contains("diesel", fuel_lower) THEN "Diesel"
             ELSE IF Contains("hybrid", fuel_lower) THEN "Hybrid"
             ELSE IF Contains("electric", fuel_lower) THEN "Electric"
             ELSE Strip(raw_fuel_type.s)
    ELSE ""

\* fuel_mapping of extract_engine_features, in the order of the dict
fuel_mapping ==
    <<[standard |-> "gasoline", variations |-> {"gas", "gasoline", "petrol"}],
      [standard |-> "diesel", variations |-> {"diesel", "dsl"}],
      [standard |-> "hybrid", variations |-> {"hybrid"}],
      [standard |-> "electric", variations |-> {"electric", "ev"}]>>

\* lines 205-208: the standard of the first entry one of whose variations
\* occurs in the normalized text, None if there is none
text_fuel(raw_text) ==
    LET hits == {k \in 1..Len(fuel_mapping) :
                    \E var \in fuel_mapping[k].variations :
                        Contains(var, raw_text)}
    IN  IF hits = {} THEN PyNone
        ELSE PyStr(fuel_mapping[CHOOSE k \in hits : \A j \in hits : k <= j].standard)

(***************************************************************************)
(* extract_engine_features.  A displacement is None or a float rounded to  *)
(* one decimal, held in tenths: PyFloat([num |-> q, scale |-> 1]).         *)
(***************************************************************************)
\* The position after the longest run of characters of chars that starts
\* at position i of s
RunEnd(s, i, chars) ==
    CHOOSE j \in i..(Len(s) + 1) :
        /\ \A k \in i..(j - 1) : Char(s, k) \in chars
        /\ j = Len(s) + 1 \/ Char(s, j) \notin chars

\* The position after a match of \d+ (or of \d+\.?\d* when decimals) that
\* starts at position i of s; each part is greedy, and since what follows
\* the number in the patterns is no digit and no point, a shorter number
\* never lets the rest match
NumberEnd(s, i, decimals) ==
    Bind(RunEnd(s, i, DOMAIN DigitValue),
         LAMBDA j : IF decimals /\ j <= Len(s) /\ Char(s, j) = "."
                    THEN RunEnd(s, j + 1, DOMAIN DigitValue)
                    ELSE j)

\* displacement_patterns, lines 181-185: number, \s*, one of the units
displacement_patterns ==
    <<[decimals |-> TRUE, units |-> {"l", "t"}],
      [decimals |-> FALSE, units |-> {"cc", "cubic centimeter"}],
      [decimals |-> TRUE, units |-> {"liter"}]>>

\* pattern matches s from position i on
MatchesAt(pattern, s, i) ==
    /\ IsDigit(Char(s, i))
    /\ \E n \in {RunEnd(s, NumberEnd(s, i, pattern.decimals), Whitespace)} :
            \E u \in pattern.units :
                /\ n + Len(u) - 1 <= Len(s)
                /\ SubSeq(s, n, n + Len(u) - 1) = u

\* re.search(pattern, s): the leftmost match, as group(1) and whether
\* group(2) is a cubic-centimeter unit; found is FALSE when there is none
re_search(pattern, s) ==
    Bind({i \in 1..Len(s) : MatchesAt(pattern, s, i)},
         LAMBDA starts :
            IF starts = {} THEN [found |-> FALSE]
            ELSE Bind(CHOOSE a \in starts : \A b \in starts : a <= b,
                      LAMBDA i :
                        [found |-> TRUE,
                         number |->
                            SubSeq(s, i, NumberEnd(s, i, pattern.decimals) - 1),
                         cc |-> pattern.units = {"cc", "cubic centimeter"}]))

\* lines 186-197: the first pattern that matches gives the displacement
text_displacement(raw_text) ==
    Bind([k \in 1..Len(displacement_patterns) |->
            re_search(displacement_patterns[k], raw_text)],
         LAMBDA searched :
            LET hits == {k \in DOMAIN searched : searched[k].found}
            IN  IF hits = {} THEN PyNone
                ELSE Bind(searched[CHOOSE a \in hits : \A b \in hits : a <= b],
                          LAMBDA match :
                            Bind(float_of(match.number),
                                 LAMBDA val :
                                    PyFloat([num |-> round1(IF match.cc
                                                            THEN div1000(val)
                                                            ELSE val),
                                             scale |-> 1]))))

\* lines 169-178: the features taken from raw_engine_data
raw_features(raw_engine_data) ==
    LET raw_disp_l == raw_engine_data.raw_displacement_l
        raw_disp_cc == raw_engine_data.raw_displacement_cc
    IN  [displacement |->
            IF raw_disp_l.t # "None"
            THEN PyFloat([num |-> round1(raw_disp_l.x), scale |-> 1])
            ELSE IF raw_disp_cc.t # "None"
            THEN PyFloat([num |-> round1(div1000(raw_disp_cc.x)), scale |-> 1])
            ELSE PyNone,
         fuel_type |->
            PyStr(normalize_text(PyStr(raw_engine_data.standardized_fuel)))]

\* extract_engine_features(engine_text, raw_engine_data) for a str
\* engine_text; raw_engine_data is None or the dict of map_api_fields
extract_engine_features(engine_text, raw_engine_data) ==
    LET features(raw_text) ==
            IF raw_engine_data.t = "dict"
            THEN [displacement |-> raw_features(raw_engine_data.d).displacement,
                  fuel_type |-> raw_features(raw_engine_data.d).fuel_type,
                  raw_text |-> raw_text]
            ELSE [displacement |-> text_displacement(raw_text),
                  fuel_type |-> text_fuel(raw_text),
                  raw_text |-> raw_text]
    IN  Bind(normalize_text(PyStr(engine_text)), features)

(***************************************************************************)
(* The comparison script's hard_decode_vin and map_api_fields.  A dict is  *)
(* a function from its keys to Python values.  The script's Chinese texts  *)
(* are written in English, except the two markers of hard_decode_vin,      *)
(* which pass through normalize_text and keep their shape: CJK characters  *)
(* as "_", full-width brackets and colon as "(", ")" and ":".              *)
(***************************************************************************)
\* Python truth value
truthy(v) ==
    IF v.t = "str" THEN v.s # ""
    ELSE IF v.t = "float" THEN v.x.num # 0
    ELSE IF v.t = "int" THEN v.n # 0
    ELSE IF v.t = "dict" THEN DOMAIN v.d # {}
    ELSE FALSE

lookup_wmi_mapping ==
    ("1HG" :> "Honda") @@ ("1F" :> "Ford") @@ ("1G" :> "Chevrolet") @@
    ("5YJ" :> "Tesla") @@ ("JM" :> "Toyota") @@ ("WAU" :> "Audi") @@
    ("WBA" :> "BMW") @@ ("WVW" :> "Volkswagen") @@ ("5N" :> "Hyundai") @@
    ("KM" :> "Kia") @@ ("SAL" :> "Land Rover") @@ ("JF" :> "Subaru")

\* hard_decode_vin of the comparison script: None, or a dict with an int
\* or marker Year and a Manufacturer/Make; its year table is year_mapping
lookup_hard_decode_vin(v) ==
    IF v = "" \/ Len(v) # VinLen THEN PyNone
    ELSE LET year_code == year_code_of(v)
             wmi == wmi_of(v)
         IN  PyDict(
                ("Year" :>
                    IF year_code \in DOMAIN year_mapping
                    THEN PyInt(year_mapping[year_code])
                    ELSE PyStr("__(_:" \o year_code \o ")"))
                @@ ("Manufacturer/Make" :>
                    PyStr(DictGet(lookup_wmi_mapping, wmi,
                                  "__(WMI:" \o wmi \o ")"))))

\* x.strip() of a value that is not None, "" for None (lines 140-145)
strip_or_empty(v) == IF v.t = "None" THEN "" ELSE Strip(py_str(v))

\* map_api_fields for a non-empty api_data.  The f-string format .1f
\* raises ValueError on a str, and str / 1000 raises TypeError: raised
\* tells whether the call raised.  The format .1f of a float is the repr
\* of its rounding to one decimal.
map_api_fields(api_data) ==
    LET raw_displacement_l == DictGet(api_data, "Displacement (L)", PyNone)
        raw_displacement_cc == DictGet(api_data, "Displacement (CC)", PyNone)
        display_displacement ==
            IF raw_displacement_l.t = "float"
            THEN float_repr(round1(raw_displacement_l.x)) \o "L"
            ELSE IF raw_displacement_cc.t = "float"
            THEN float_repr(round1(div1000(raw_displacement_cc.x))) \o "L"
            ELSE ""
        raw_fuel_type == DictGet(api_data, "Fuel Type - Primary", PyNone)
        standardized_fuel == lookup_standardize_fuel(raw_fuel_type)
        engine_config == DictGet(api_data, "Engine Configuration", PyNone)
        parts ==
            (IF display_displacement # ""
             THEN <<"Displacement: " \o display_displacement>> ELSE <<>>)
            \o (IF standardized_fuel # ""
                THEN <<"Fuel Type: " \o standardized_fuel>> ELSE <<>>)
            \o (IF engine_config.t = "str" /\ Strip(engine_config.s) # ""
                THEN <<"Config: " \o Strip(engine_config.s)>> ELSE <<>>)
        engine_info ==
            IF parts = <<>> THEN ""
            ELSE IF Len(parts) = 1 THEN parts[1]
            ELSE IF Len(parts) = 2 THEN parts[1] \o "; " \o parts[2]
            ELSE parts[1] \o "; " \o parts[2] \o "; " \o parts[3]
        style == DictGet(api_data, "Transmission Style", PyStr(""))
    IN  [raised |->
            \/ raw_displacement_l.t = "str"
            \/ raw_displacement_l.t = "None" /\ raw_displacement_cc.t = "str",
         value |->
            ("Manufacturer/Make" :>
                PyStr(strip_or_empty(DictGet(api_data, "Make", PyStr(""))))) @@
            ("Year" :>
                PyStr(strip_or_empty(DictGet(api_data, "Model Year", PyStr(""))))) @@
            ("Model" :>
                PyStr(strip_or_empty(DictGet(api_data, "Model", PyStr(""))))) @@
            ("Engine" :> PyStr(engine_info)) @@
            ("Transmission" :>
                IF truthy(style) THEN style
                ELSE DictGet(api_data, "Transmission", PyStr(""))) @@
            ("Other Engine Info" :>
                PyStr(strip_or_empty(
                        DictGet(api_data, "Other Engine Info", PyStr(""))))) @@
            ("raw_engine_data" :>
                PyDict([raw_displacement_l |-> raw_displacement_l,
                        raw_displacement_cc |-> raw_displacement_cc,
                        raw_fuel_type |-> raw_fuel_type,
                        standardized_fuel |-> standardized_fuel]))]

(***************************************************************************)
(* engine_features_match                                                   *)
(***************************************************************************)
\* The text shown for a missing value
NoValue == "_"

\* The allowed displacement error, 0.2, in tenths
ToleranceTenths == 2

\* The tenths a (below 10.0) for which the double difference of the
\* floats a/10 + 0.2 and a/10 exceeds the float 0.2
TwoTenthsOver ==
    {6, 7, 9, 14, 19, 20, 23, 24, 25, 28, 29, 30, 33, 34, 35, 38, 40, 41, 42,
     43, 45, 46, 47, 48, 50, 51, 52, 53, 55, 56, 57, 58, 60, 61, 62, 63, 65,
     66, 67, 68, 70, 71, 72, 73, 75, 76, 77, 78, 81, 82, 86, 87, 91, 92, 96,
     97}

\* abs(a - b) <= 0.2 for two floats given in tenths, in double arithmetic
within_tolerance(a, b) ==
    LET low == IF a < b THEN a ELSE b
        d == IF a < b THEN b - a ELSE a - b
    IN  d < ToleranceTenths \/ (d = ToleranceTenths /\ low \notin TwoTenthsOver)

is_hybrid_by_fuel_only(local_feat, api_feat) ==
    local_feat.fuel_type = PyStr("hybrid") \/ api_feat.fuel_type = PyStr("hybrid")

\* lines 244-251; raw_text of the features is normalize_text of the text
is_hybrid(local_feat, api_feat) ==
    \/ local_feat.fuel_type = PyStr("hybrid")
    \/ api_feat.fuel_type = PyStr("hybrid")
    \/ Contains("hybrid", local_feat.raw_text)
    \/ Contains("hybrid", api_feat.raw_text)

\* engine_features_match for two str texts: the returned flag as match,
\* with the entries of match_details
engine_features_match(local_engine, api_engine, api_raw_engine_data) ==
    IF Strip(local_engine) = "" /\ Strip(api_engine) = ""
    THEN [match |-> TRUE, reason |-> "both engine texts are empty",
          fuel_type_match |-> TRUE, displacement_match |-> TRUE,
          local_fuel |-> NoValue, api_fuel |-> NoValue,
          local_displacement |-> NoValue, api_displacement |-> NoValue,
          displacement_error |-> NoValue]
    ELSE
    LET verdict(feat) ==
        LET local_feat == feat[1]
            api_feat == feat[2]
            lf == local_feat.fuel_type
            af == api_feat.fuel_type
            ld == local_feat.displacement
            ad == api_feat.displacement
            fuel_check ==
                IF is_hybrid(local_feat, api_feat) THEN "match"
                ELSE IF truthy(lf) /\ truthy(af)
                THEN (IF lf = af THEN "match" ELSE "mismatch")
                ELSE IF ~truthy(lf) /\ ~truthy(af) THEN "match"
                ELSE "incomplete"
            displacement_check ==
                IF ld.t # "None" /\ ad.t # "None"
                THEN (IF within_tolerance(ld.x.num, ad.x.num)
                      THEN "match" ELSE "mismatch")
                ELSE IF ~truthy(ld) /\ ~truthy(ad) THEN "match"
                ELSE "incomplete"
            error == IF ld.x.num < ad.x.num THEN ad.x.num - ld.x.num
                     ELSE ld.x.num - ad.x.num
        IN  [match |-> fuel_check = "match" /\ displacement_check = "match",
             reason |->
                IF fuel_check = "mismatch" THEN "fuel type mismatch"
                ELSE IF fuel_check = "incomplete"
                THEN "fuel type information incomplete"
                ELSE IF displacement_check = "mismatch" THEN "displacement mismatch"
                ELSE IF displacement_check = "incomplete"
                THEN "displacement information incomplete"
                ELSE "matched",
             fuel_type_match |-> fuel_check = "match",
             displacement_match |->
                fuel_check = "match" /\ displacement_check = "match",
             local_fuel |-> IF truthy(lf) THEN lf.s ELSE NoValue,
             api_fuel |-> IF truthy(af) THEN af.s ELSE NoValue,
             local_displacement |->
                IF ld.t # "None" THEN float_repr(ld.x.num) \o "L" ELSE NoValue,
             api_displacement |->
                IF ad.t # "None" THEN float_repr(ad.x.num) \o "L" ELSE NoValue,
             displacement_error |->
                IF fuel_check = "match" /\ ld.t # "None" /\ ad.t # "None"
                THEN float_repr(error) \o "L" ELSE NoValue]
    IN  Bind(<<extract_engine_features(local_engine, PyNone),
               extract_engine_features(api_engine, api_raw_engine_data)>>,
             verdict)

(***************************************************************************)
(* compare_with_source and compare_vehicles.  A verdict is the result      *)
(* dict; match_rate is a whole number of percent.                          *)
(***************************************************************************)
fields_to_check == {"Manufacturer/Make", "Year", "Model", "Engine", "Transmission"}

ApiData == "API data"

HardDecodeData == "hard decode data"

absent_field_unmatched(local_val) ==
    [local |-> local_val, source |-> PyStr("hard decode has no such data"),
     match |-> FALSE, standardized_local |-> normalize_text(local_val),
     standardized_source |-> "N/A"]

\* lines 320-330: the entry of a field the source has no key for
absent_field(local_val) ==
    [local |-> local_val, source |-> PyStr("hard decode has no such data"),
     match |-> TRUE, standardized_local |-> normalize_text(local_val),
     standardized_source |-> "N/A"]

\* lines 332-373: the entry of a field the source has; for Engine the
\* local value is a str
present_field(field, local_val, source_data, source_name) ==
    LET source_val == source_data[field]
        entry_of(std) ==
            LET std_local == std[1]
                std_source == std[2]
                include_match ==
                    \/ Contains(std_local, std_source)
                    \/ Contains(std_source, std_local)
                entry(match) ==
                    [local |-> local_val, source |-> source_val,
                     match |-> match, standardized_local |-> std_local,
                     standardized_source |-> std_source]
            IN  IF field = "Year"
                THEN entry(Strip(py_str(local_val)) = Strip(py_str(source_val)))
                ELSE IF field = "Engine"
                THEN Bind(engine_features_match(
                            local_val.s, source_val.s,
                            IF source_name = ApiData
                            THEN source_data["raw_engine_data"] ELSE PyNone),
                          LAMBDA analysis :
                            [match_details |-> analysis] @@ entry(analysis.match))
                ELSE IF field = "Transmission"
                THEN entry(\/ /\ Contains("cvt", std_local)
                              /\ Contains("automatic", std_source)
                           \/ /\ Contains("cvt", std_source)
                              /\ Contains("automatic", std_local)
                           \/ /\ Contains("manual", std_local)
                              /\ Contains("manual", std_source)
                           \/ include_match)
                ELSE entry(include_match)
    IN  Bind(<<normalize_text(local_val), normalize_text(source_val)>>, entry_of)

overall_match_by_count(match_count, engine_matched) == match_count >= 4

\* line 379
overall_match(match_count, engine_matched) ==
    match_count >= 4 /\ engine_matched

\* compare_with_source; raised tells whether engine_features_match raised
\* AttributeError on a local Engine that is no str
compare_with_source(local_data, source_data, match_source, source_name) ==
    LET verdict_of(fields) ==
            LET match_count ==
                    Cardinality({field \in fields_to_check : fields[field].match})
                match_rate ==
                    (match_count * 100) \div Cardinality(fields_to_check)
            IN  [match |-> overall_match(match_count, fields["Engine"].match),
                 match_rate |-> match_rate,
                 details |->
                    "compared 5 fields with " \o source_name \o ", "
                    \o IntToStr(match_count) \o " matched, match rate "
                    \o IntToStr(match_rate) \o "%",
                 fields |-> fields,
                 match_source |-> match_source,
                 engine_match_analysis |->
                    IF "match_details" \in DOMAIN fields["Engine"]
                    THEN fields["Engine"].match_details ELSE <<>>]
    IN  [raised |->
            "Engine" \in DOMAIN source_data /\ local_data["Engine"].t # "str",
         result |->
            Bind([field \in fields_to_check |->
                    IF field \notin DOMAIN source_data
                    THEN absent_field(local_data[field])
                    ELSE IF field = "Engine" /\ local_data[field].t # "str"
                    THEN [match |-> FALSE]
                    ELSE present_field(field, local_data[field], source_data,
                                       source_name)],
                 verdict_of)]

\* The verdict of compare_vehicles when there is nothing to compare with
\* (lines 290-297, 305-306)
base_result ==
    [match |-> FALSE, match_rate |-> 0,
     details |-> "API returned no valid data and hard decode failed",
     fields |-> <<>>, match_source |-> "api", engine_match_analysis |-> <<>>]

\* compare_vehicles; api_data is None or the dict of map_api_fields
compare_vehicles(local_data, api_data, v) ==
    Bind(IF truthy(api_data) THEN api_data ELSE lookup_hard_decode_vin(v),
         LAMBDA source :
            IF ~truthy(source) THEN [raised |-> FALSE, result |-> base_result]
            ELSE compare_with_source(
                    local_data, source.d,
                    IF truthy(api_data) THEN "api" ELSE "hard_decode",
                    IF truthy(api_data) THEN ApiData ELSE HardDecodeData))

(***************************************************************************)
(* The text functions applied to one text: normalize_text to a value, and  *)
(* the three fuel classifications to one fuel text                         *)
(***************************************************************************)
\* Texts are made of at most MaxTokens tokens
MaxTokens == 2

RECURSIVE Concats(_, _)
\* The concatenations of at most n strings of tokens
Concats(tokens, n) ==
    IF n = 0 THEN {""}
    ELSE Concats(tokens, n - 1)
         \cup {a \o b : a \in tokens, b \in Concats(tokens, n - 1)}

TextTokens ==
    {"Honda", "  ", "\t", "2.0L,", "(I4)", "A/T;", "-", "_", DottedI, "Motor Co."}

TextInputs ==
    {PyNone, PyInt(2019)} \cup {PyStr(t) : t \in Concats(TextTokens, MaxTokens)}

FuelWords ==
    {"Gasoline", "gas", "Petrol", "Diesel", "DSL", "Electric", "EV", "Hybrid",
     "Regular Unleaded", "Flex Fuel"}

FuelTexts == Concats({w \o " " : w \in FuelWords}, MaxTokens) \ {""}

NormalizeText ==
    /\ pc = "idle"
    /\ prog' = "normalize_text"
    /\ pc' = "done"
    /\ \E v \in TextInputs :
        /\ text' = v
        /\ normalized' = normalize_text(v)
    /\ UNCHANGED <<vin, vin_check, attempt, requests, hard_calls, last_outcome,
                   result, api_success, parsed_info, hard_decoded, api_raw,
                   response_json, main_vars, fuel>>

\* The fuel category of one text by extract_standardized_engine, by
\* map_api_fields and by extract_engine_features
ClassifyFuel ==
    /\ pc = "idle"
    /\ prog' = "classify_fuel"
    /\ pc' = "done"
    /\ \E t \in FuelTexts :
        /\ text' = PyStr(t)
        /\ normalized' = normalize_text(PyStr(t))
        /\ fuel' = [standardizer |->
                        standardize_fuel(("Fuel Type - Primary" :> t)),
                    mapper |-> lookup_standardize_fuel(PyStr(t)),
                    matcher |-> extract_engine_features(t, PyNone).fuel_type]
    /\ UNCHANGED <<vin, vin_check, attempt, requests, hard_calls, last_outcome,
                   result, api_success, parsed_info, hard_decoded, api_raw,
                   response_json, main_vars>>

TextNext ==
    \/ NormalizeText
    \/ ClassifyFuel

TextSpec == Init /\ [][TextNext]_vars

(***************************************************************************)
(* The batch run: the loop of main over vehicle_data, one entry after      *)
(* another.  Each entry is looked up by decode_vin (with its retries),     *)
(* mapped by map_api_fields and compared by compare_vehicles; only the     *)
(* comparison is inside the try of main.                                   *)
(***************************************************************************)
\* The number of entries of vehicle_data
MaxVehicles == 2

\* The VINs of vehicle_data in file order: the keys are distinct, one of
\* them is no 17-character VIN, one has an unknown WMI and year code
DatasetVins ==
    <<MkVin("1HG", "K"), "1HGCM82", MkVin("ZZZ", "U"), MkVin("1FX", "k")>>

\* A record as load_vehicle_data returns it: the five required fields
ReferenceRecord(make, year, engine) ==
    ("Manufacturer/Make" :> PyStr(make)) @@ ("Year" :> year) @@
    ("Model" :> PyStr("Civic")) @@ ("Engine" :> engine) @@
    ("Transmission" :> PyStr("Automatic"))

ReferenceEngines ==
    {PyStr("2.0L Gasoline"), PyStr("2.2L Gasoline"), PyStr("2.0L Diesel"),
     PyStr("2.0L Hybrid"), PyStr("2.0L Gas Hybrid"), PyStr("0.0L Gasoline"),
     PyStr("Gasoline"), PyStr(""), PyInt(2)}

\* The records the file may hold for the i-th VIN
ReferenceRecords(i) ==
    {ReferenceRecord("Honda", PyStr("2019"), PyStr("2.0L Gasoline")),
     ReferenceRecord("Toyota", PyStr("2018"), PyStr("2.0L Gasoline")),
     ReferenceRecord("Honda", PyStr("2019"), PyInt(2))}
    \cup (IF i # 1 THEN {}
          ELSE {ReferenceRecord("Honda", PyStr("2019"), e) : e \in ReferenceEngines}
               \cup {ReferenceRecord("Toyota", PyStr("2019"), PyStr("2.0L Gasoline")),
                     ReferenceRecord("Honda", PyStr("2018"), PyStr("2.0L Gasoline")),
                     ReferenceRecord("Honda", PyInt(2019), PyStr("2.0L Gasoline"))})

DocBase ==
    <<Item("Make", JStr("HONDA")), Item("Model Year", JStr("2019")),
      Item("Model", JStr("Civic")),
      Item("Transmission Style", JStr("Automatic"))>>

Absent == [t |-> "absent"]

\* The items of one variable: none when the service leaves it out
DocItem(var, val) == IF val = Absent THEN <<>> ELSE <<Item(var, val)>>

LookupDoc(disp_l, disp_cc, fuel_type) ==
    [Results |-> JList(DocBase \o DocItem("Displacement (L)", disp_l)
                       \o DocItem("Displacement (CC)", disp_cc)
                       \o DocItem("Fuel Type - Primary", fuel_type))]

\* The JSON documents the service answers the batch run with
LookupDocs ==
    {<<>>, [Results |-> JList(<<>>)],
     [Results |-> JList(<<[Value |-> JNull]>>)],
     [Results |-> JList(<<Item("Make", JStr("HONDA")),
                          Item("Transmission Style", JNull)>>)],
     LookupDoc(JNull, JStr("abc"), JStr("Gasoline"))}
    \cup {LookupDoc(l, Absent, f) :
            l \in {Absent, JNull, JStr("2.0"), JStr("2.2"), JStr("2.0L")},
            f \in {Absent, JStr("Gasoline"), JStr("Electric"), JStr("Hybrid")}}
    \cup {LookupDoc(l, JStr("1998"), f) :
            l \in {Absent, JNull}, f \in {Absent, JStr("Gasoline")}}

\* The verdict main records when compare_vehicles raised (lines 556-561)
error_verdict(err_msg) ==
    [match |-> FALSE, match_rate |-> 0, details |-> err_msg, fields |-> <<>>,
     match_source |-> "error", engine_match_analysis |-> <<>>]

\* Lines 541-545: the loop takes the next entry and calls decode_vin.  The
\* names api_raw, api_mapped and comp_res are rebound before they are read
\* again, so the entry starts with them cleared
MainIterate ==
    /\ pc = "idle"
    /\ idx < MaxVehicles
    /\ prog' = "main"
    /\ pc' = "request"
    /\ idx' = idx + 1
    /\ vin' = DatasetVins[idx + 1]
    /\ local_info' \in ReferenceRecords(idx + 1)
    /\ attempt' = 0
    /\ requests' = 0
    /\ last_outcome' = "none"
    /\ api_raw' = <<>>
    /\ api_mapped' = <<>>
    /\ comp_res' = <<>>
    /\ UNCHANGED <<vin_check, hard_calls, result, api_success, parsed_info,
                   hard_decoded, response_json, comparison_results,
                   text_vars>>

\* Lines 548-561: the verdict of the try statement of main
try_compare(local_data, mapped_value, v) ==
    Bind(compare_vehicles(local_data, mapped_value, v),
         LAMBDA compared :
            IF compared.raised
            THEN error_verdict(
                    "comparison failed: 'int' object has no attribute 'strip'")
            ELSE compared.result)

\* Lines 545-562 once decode_vin returned value: map_api_fields outside the
\* try, compare_vehicles inside it, then the next entry.  An exception of
\* map_api_fields leaves main
MainFinish(value, outcome) ==
    /\ requests' = requests + 1
    /\ last_outcome' = outcome
    /\ api_raw' = value
    /\ \E mapped \in {IF truthy(value) THEN map_api_fields(value.d)
                      ELSE [raised |-> FALSE, value |-> <<>>]} :
        IF mapped.raised
        THEN /\ pc' = "raised"
             /\ UNCHANGED <<api_mapped, comp_res, comparison_results>>
        ELSE \E mapped_value \in {IF truthy(value) THEN PyDict(mapped.value)
                                  ELSE PyNone} :
             \E verdict \in {try_compare(local_info, mapped_value, vin)} :
                /\ api_mapped' = mapped_value
                /\ comp_res' = verdict
                /\ comparison_results' =
                    (vin :> [match |-> verdict.match,
                             match_source |-> verdict.match_source])
                    @@ comparison_results
                /\ pc' = IF idx = MaxVehicles THEN "done" ELSE "idle"
    /\ UNCHANGED <<prog, vin, vin_check, attempt, hard_calls, result,
                   api_success, parsed_info, hard_decoded, response_json,
                   idx, local_info, text_vars>>

\* What one request of decode_vin ends with: the value it returns unless
\* it retries, and how the request ended
lookup_answer(data) ==
    IF ~results_present(data) THEN [value |-> PyNone, outcome |-> "empty"]
    ELSE Bind(lookup_map_items([api_data |-> <<>>, raised |-> FALSE],
                               data["Results"].items),
              LAMBDA acc :
                IF acc.raised THEN [value |-> PyNone, outcome |-> "malformed"]
                ELSE [value |-> PyDict(acc.api_data), outcome |-> "ok"])

\* One request of decode_vin: the except branch sleeps and retries, every
\* other end returns
MainRequest(answer) ==
    IF answer.outcome # "ok" /\ lookup_retried(answer.outcome, attempt)
    THEN Retry(answer.outcome)
    ELSE MainFinish(answer.value, answer.outcome)

\* requests.get, raise_for_status or response.json raises, or the service
\* answers with a JSON document
MainRequestRaises ==
    /\ prog = "main"
    /\ pc = "request"
    /\ MainRequest([value |-> PyNone, outcome |-> "exception"])

MainRequestJson ==
    /\ prog = "main"
    /\ pc = "request"
    /\ \E data \in LookupDocs :
        \E answer \in {lookup_answer(data)} : MainRequest(answer)

MainNext ==
    \/ MainIterate
    \/ MainRequestRaises
    \/ MainRequestJson

CompareSpec == Init /\ [][MainNext]_vars

(***************************************************************************)
(* Properties                                                              *)
(***************************************************************************)
Resolving == prog = "resolve"

Returned == Resolving /\ pc = "done"

VinValid == Resolving /\ vin_check[1]

\* The lookup failed totally: the call of a valid VIN returned without
\* api_success
TotalFailure == Returned /\ VinValid /\ ~api_success

C2_AtMostThreeRequests ==
    /\ requests <= 3
    /\ requests = 3 => pc = "done"
    /\ pc # "raised"
    /\ Returned => DOMAIN result = {"success", "vehicle_info", "error"}
    /\ (prog = "lookup" /\ pc = "done") => api_raw.t \in {"None", "dict"}

\* The third request was issued and the call returned
C2_Witness == Returned /\ requests = 3 /\ last_outcome = "empty"

\* C3: on total failure of the lookup for a valid VIN the record carries the
\* structural-only tag and exactly the structural decoder's manufacturer
\* and year, and no exception escapes.
C3_TotalFailureIsStructural ==
    /\ pc # "raised"
    /\ TotalFailure =>
        /\ result.vehicle_info.Data_Source = "Hard Decode (API Unavailable)"
        /\ result.vehicle_info.Manufacturer = hard_decode_vin(vin).manufacturer
        /\ result.vehicle_info.Year = hard_decode_vin(vin).year

\* All three attempts timed out
C3_Witness ==
    TotalFailure /\ requests = 3 /\ last_outcome = "timeout"
    /\ result.vehicle_info.Manufacturer = "Honda"

C5_InvalidFailsFast ==
    /\ (Resolving /\ ~vin_check[1]) =>
        /\ Returned
        /\ result.success = FALSE
        /\ result.error = vin_check[2]
        /\ requests = 0
        /\ hard_calls = 0
    /\ (Resolving /\ (requests > 0 \/ hard_calls > 0)) => VinValid

\* A 17-character VIN rejected for a character
C5_Witness == Returned /\ ~vin_check[1] /\ Len(vin) = 17

\* The 1-based positions of I, O, Q in either case
Offending(s) ==
    {i \in 1..Len(s) : Char(s, i) \in {"I", "O", "Q", "i", "o", "q"}}

FirstOffending(s) ==
    CHOOSE i \in Offending(s) : \A j \in Offending(s) : i <= j

\* C6: a string whose length is not 17 fails with the length reason; a
\* 17-character string that holds I, O or Q in either case fails with the
\* reason that names the first such character.
C6_ValidateRejects ==
    Resolving =>
        /\ Len(vin) # 17 =>
            vin_check = <<FALSE, "VIN must be 17 characters long">>
        /\ (Len(vin) = 17 /\ Offending(vin) # {}) =>
            vin_check =
                <<FALSE,
                  "VIN contains invalid character '"
                  \o Char(vin, FirstOffending(vin))
                  \o "' (I/O/Q are not allowed)">>

\* A 17-character string with two different offending characters, the first
\* of them in lower case
C6_Witness ==
    /\ Resolving
    /\ Len(vin) = 17
    /\ Cardinality({Char(vin, i) : i \in Offending(vin)}) = 2
    /\ Char(vin, FirstOffending(vin)) \in {"o", "q"}

AllowedVinChars ==
    {Char(UpperLetters \o DigitChars, i) : i \in 1..36} \ {"I", "O", "Q"}

\* A well-formed VIN: 17 characters, each a letter or digit other than
\* I, O, Q, case-insensitively
WellFormed(s) ==
    /\ Len(s) = 17
    /\ \A i \in 1..Len(s) : UpperChar(Char(s, i)) \in AllowedVinChars

\* C7: every string that validate_vin accepts, and so every VIN that
\* reaches the structural decoder or the remote lookup, is well-formed.
C7_AcceptedIsWellFormed ==
    /\ VinValid => WellFormed(vin)
    /\ (Resolving /\ (requests > 0 \/ hard_calls > 0)) => WellFormed(vin)

\* C8: for a valid VIN the structural decode does not raise; its status is
\* success exactly when the 3-character prefix and the year code at offset
\* 9 are keys of their tables, and partial_success otherwise, with the
\* unrecognized marker in each unresolved field; prefix 1HG with year code K
\* gives Honda, 2019, success.
C8_StructuralDecode ==
    /\ pc # "raised"
    /\ hard_decoded # <<>> =>
        LET w == Upper(SubSeq(vin, 1, 3))
            y == Upper(SubSeq(vin, 10, 10))
            hd == hard_decoded
        IN  /\ hd.decode_status =
                (IF w \in DOMAIN wmi_mapping /\ y \in DOMAIN year_mapping
                 THEN "success" ELSE "partial_success")
            /\ (w \notin DOMAIN wmi_mapping) =
                (hd.manufacturer = "Hard decode unrecognized (WMI not in mapping)")
            /\ (y \notin DOMAIN year_mapping) =
                (hd.year = "Hard decode unrecognized (Year code not in mapping)")
            /\ w \in DOMAIN wmi_mapping => hd.manufacturer = wmi_mapping[w]
            /\ y \in DOMAIN year_mapping => hd.year = IntToStr(year_mapping[y])
            /\ (w = "1HG" /\ y = "K") =>
                hd = [manufacturer |-> "Honda", year |-> "2019",
                      decode_status |-> "success"]
            /\ hd = hard_decode_vin(vin)

\* A decode with the manufacturer resolved and the year code unrecognized
C8_Witness ==
    /\ hard_decoded # <<>>
    /\ hard_decoded.manufacturer = "Honda"
    /\ hard_decoded.year = YearUnrecognized
    /\ hard_decoded.decode_status = "partial_success"

\* C9: when the 3-character prefix of a valid VIN is no key of the WMI
\* table and its 2-character prefix is, the structural decoder returns the
\* manufacturer of the 2-character prefix.
C9_ShorterPrefixFallback ==
    (/\ hard_decoded # <<>>
     /\ Upper(SubSeq(vin, 1, 3)) \notin DOMAIN wmi_mapping
     /\ Upper(SubSeq(vin, 1, 2)) \in DOMAIN wmi_mapping)
        => hard_decoded.manufacturer = wmi_mapping[Upper(SubSeq(vin, 1, 2))]

\* C10: after a successful lookup manufacturer and year are never N/A: one
\* that standardized to N/A holds the structural decoder's value, the other
\* keeps its standardized value; Data_Source is the API tag when neither
\* was refilled, the manufacturer-fallback tag when only the manufacturer
\* was, and the year-fallback tag whenever the year was.
C10_FallbackMerge ==
    (Returned /\ api_success) =>
        LET info == result.vehicle_info
            hd == hard_decode_vin(vin)
        IN  /\ info.Manufacturer # "N/A"
            /\ info.Year # "N/A"
            /\ info.Manufacturer =
                (IF parsed_info.Manufacturer = "N/A" THEN hd.manufacturer
                 ELSE parsed_info.Manufacturer)
            /\ info.Year =
                (IF parsed_info.Year = "N/A" THEN hd.year
                 ELSE parsed_info.Year)
            /\ info.Data_Source =
                (IF parsed_info.Year = "N/A"
                 THEN "API + Hard Decode (Year Fallback)"
                 ELSE IF parsed_info.Manufacturer = "N/A"
                 THEN "API + Hard Decode (Manufacturer Fallback)"
                 ELSE "API")

\* Both manufacturer and year were refilled
C10_Witness ==
    /\ Returned /\ api_success
    /\ parsed_info.Manufacturer = "N/A" /\ parsed_info.Year = "N/A"
    /\ result.vehicle_info.Manufacturer = "Honda"

RECURSIVE LastValue(_, _)
\* The Value of the last item of a Results list whose Variable is one of
\* names; null when there is none
LastValue(items, names) ==
    IF Len(items) = 0 THEN JNull
    ELSE IF items[Len(items)]["Variable"] \in names
    THEN items[Len(items)]["Value"]
    ELSE LastValue(SubSeq(items, 1, Len(items) - 1), names)

\* C11: after a successful lookup the engine string is
\* "Displacement: {D}; Fuel Type: {F}"; D is the liters value with one
\* decimal and L when the liters field has a value; when the liters field
\* is absent or null and the cubic-centimeters field holds a number c, D is
\* c/1000 rounded to one decimal with L; D is N/A only when neither field
\* has a value.
C11_EngineDisplacement ==
    (Returned /\ api_success) =>
        LET items == response_json["Results"].items
            l == LastValue(items, {"Displacement (L)"})
            cc == LastValue(items, {"Displacement (CC)"})
            D == IF l # JNull
                 THEN float_repr(round1(float_of(l.s))) \o "L"
                 ELSE IF cc # JNull
                 THEN float_repr(round1(div1000(float_of(cc.s)))) \o "L"
                 ELSE "N/A"
            head == "Displacement: " \o D \o "; Fuel Type: "
        IN  Prefix(result.vehicle_info.Engine, Len(head)) = head

\* C12: after a successful lookup the record's transmission is CVT if the
\* raw value contains CVT, else Automatic if it contains Automatic, else
\* Manual if it contains Manual or Standard, else N/A; no other text
\* appears there.
C12_TransmissionCategory ==
    (Returned /\ api_success) =>
        LET items == response_json["Results"].items
            v == LastValue(items, {"Transmission Style", "Transmission"})
            raw == IF v = JNull THEN "N/A" ELSE v.s
        IN  result.vehicle_info.Transmission =
                (IF Contains("CVT", raw) THEN "CVT"
                 ELSE IF Contains("Automatic", raw) THEN "Automatic"
                 ELSE IF Contains("Manual", raw) \/ Contains("Standard", raw)
                 THEN "Manual"
                 ELSE "N/A")

\* C13: normalize_text returns the empty string for None; normalizing its
\* result again changes nothing; the result has no upper-case letter, no
\* whitespace at either end, no whitespace other than single spaces, and
\* no character other than word characters, space, '.', '-', '/', ';'.
C13_NormalizeIdempotent ==
    prog = "normalize_text" =>
        /\ text = PyNone => normalized = ""
        /\ normalize_text(PyStr(normalized)) = normalized
        /\ Strip(normalized) = normalized
        /\ ~Contains("  ", normalized)
        /\ \A i \in 1..Len(normalized) :
            LET c == Char(normalized, i)
            IN  /\ c \notin DOMAIN LowerOf
                /\ c \notin Whitespace \ {" "}
                /\ IsWord(c) \/ c \in {" ", ".", "-", "/", ";"}

\* C19: extract_engine_features gives a fuel text the category that the
\* standardizers (extract_standardized_engine, map_api_fields) give it:
\* the same one of Gasoline, Diesel, Electric, Hybrid, and none when the
\* standardizers find no keyword and pass the text through.
C19_SameFuelClassification ==
    prog = "classify_fuel" =>
        LET categories == {"Gasoline", "Diesel", "Electric", "Hybrid"}
            agrees(standardized) ==
                IF standardized \in categories
                THEN fuel.matcher = PyStr(Lower(standardized))
                ELSE fuel.matcher = PyNone
        IN  agrees(fuel.standardizer) /\ agrees(fuel.mapper)

(***************************************************************************)
(* Properties of the batch run                                             *)
(***************************************************************************)
\* The current entry of the batch run has its verdict
HasVerdict == prog = "main" /\ comp_res # <<>>

\* The verdict was built by compare_with_source over the five fields
VerdictBuilt == HasVerdict /\ DOMAIN comp_res.fields = fields_to_check

\* The Engine field was compared by engine_features_match
EngineCompared == VerdictBuilt /\ comp_res.engine_match_analysis # <<>>

\* The number of fields the verdict reports as matched
MatchedFields == Cardinality({f \in fields_to_check : comp_res.fields[f].match})

\* Either side's fuel category is hybrid, or either side's normalized
\* engine text contains "hybrid"
HybridCase ==
    \/ comp_res.engine_match_analysis.local_fuel = "hybrid"
    \/ comp_res.engine_match_analysis.api_fuel = "hybrid"
    \/ Contains("hybrid", comp_res.fields["Engine"].standardized_local)
    \/ Contains("hybrid", comp_res.fields["Engine"].standardized_source)

\* C14: in every verdict whose Engine field was compared, if either side's
\* fuel category is hybrid or either side's normalized engine text contains
\* "hybrid", the fuel-type comparison is reported as matched, and the engine
\* verdict is that of the displacement comparison.
C14_HybridOverride ==
    (EngineCompared /\ HybridCase) =>
        /\ comp_res.engine_match_analysis.fuel_type_match
        /\ comp_res.fields["Engine"].match
            <=> comp_res.engine_match_analysis.displacement_match

\* C14 witness: only the reference text shows the hybrid (its category is
\* gasoline, the remote one electric), and the fuel comparison is matched
C14_Witness ==
    /\ EngineCompared
    /\ comp_res.engine_match_analysis.local_fuel = "gasoline"
    /\ comp_res.engine_match_analysis.api_fuel = "electric"
    /\ Contains("hybrid", comp_res.fields["Engine"].standardized_local)
    /\ comp_res.engine_match_analysis.fuel_type_match
    /\ comp_res.fields["Engine"].match

\* The displacement a verdict shows ("2.0L"), in tenths of a liter; -1 when
\* it shows none
ShownTenths(shown) ==
    IF shown = NoValue THEN -1
    ELSE round1(float_of(SubSeq(shown, 1, Len(shown) - 1)))

\* |a - b| <= 0.2 liters for two displacements in tenths
WithinTwoTenths(a, b) == a - b <= ToleranceTenths /\ b - a <= ToleranceTenths

\* C15: once the fuel comparison passed, the displacement comparison is
\* matched iff both sides have a value and |local - remote| <= 0.2 liters,
\* or both sides have none; when exactly one side has a value the engine
\* match fails with the incomplete-displacement reason.
C15_DisplacementComparison ==
    (EngineCompared /\ comp_res.engine_match_analysis.fuel_type_match) =>
        LET analysis == comp_res.engine_match_analysis
            local == ShownTenths(analysis.local_displacement)
            remote == ShownTenths(analysis.api_displacement)
        IN  /\ analysis.displacement_match
                <=> \/ local >= 0 /\ remote >= 0 /\ WithinTwoTenths(local, remote)
                    \/ local < 0 /\ remote < 0
            /\ (local < 0) # (remote < 0) =>
                /\ ~comp_res.fields["Engine"].match
                /\ analysis.reason = "displacement information incomplete"

\* C16: in every verdict built over the five fields, match_rate is the
\* number of matched fields / 5 * 100, and match holds iff at least 4
\* fields matched and the Engine field matched.
C16_Aggregate ==
    VerdictBuilt =>
        /\ comp_res.match_rate * Cardinality(fields_to_check)
            = MatchedFields * 100
        /\ comp_res.match
            <=> MatchedFields >= 4 /\ comp_res.fields["Engine"].match

\* C16 witness: four fields matched, the Engine field did not, and the
\* verdict is no match
C16_Witness ==
    /\ VerdictBuilt
    /\ MatchedFields = 4
    /\ ~comp_res.fields["Engine"].match
    /\ ~comp_res.match
    /\ comp_res.match_rate = 80

\* C17: a comparison without resolved data is tagged hard_decode when the
\* structural decoder yields data for the VIN; when it yields nothing the
\* verdict is no match, with a message, tagged error; a verdict is tagged
\* api only when resolved data was compared.
C17_FallbackTags ==
    HasVerdict =>
        /\ (api_mapped = PyNone /\ lookup_hard_decode_vin(vin) # PyNone)
            => comp_res.match_source = "hard_decode"
        /\ (api_mapped = PyNone /\ lookup_hard_decode_vin(vin) = PyNone)
            => /\ ~comp_res.match
               /\ comp_res.details # ""
               /\ comp_res.match_source = "error"
        /\ comp_res.match_source = "api" => api_mapped # PyNone

\* C18: the batch run never stops on an exception, and between two entries
\* every VIN taken so far has its verdict in comparison_results.
C18_EveryVinGetsVerdict ==
    prog = "main" =>
        /\ pc # "raised"
        /\ pc \in {"idle", "done"} =>
            DOMAIN comparison_results = {DatasetVins[i] : i \in 1..idx}

\* C20: on the fallback path (no resolved data, 17-character VIN) Model,
\* Engine and Transmission are counted as matched, match_rate is at least
\* 60, and match holds iff Manufacturer or Year matches the record.
C20_FallbackTrivialFields ==
    (HasVerdict /\ api_mapped = PyNone /\ Len(vin) = VinLen) =>
        /\ VerdictBuilt
        /\ \A f \in {"Model", "Engine", "Transmission"} : comp_res.fields[f].match
        /\ comp_res.match_rate >= 60
        /\ comp_res.match
            <=> \/ comp_res.fields["Manufacturer/Make"].match
                \/ comp_res.fields["Year"].match

\* C20 witness: a fallback verdict that is a match although the
\* manufacturer differs, for a record with an engine text
C20_Witness ==
    /\ HasVerdict
    /\ api_mapped = PyNone
    /\ Len(vin) = VinLen
    /\ local_info["Engine"] = PyStr("2.0L Gasoline")
    /\ ~comp_res.fields["Manufacturer/Make"].match
    /\ comp_res.fields["Year"].match
    /\ comp_res.match
    /\ comp_res.match_rate = 80

=============================================================================
